---- MODULE Spec2Model ----
(***************************************************************************)
(* The greedy block allocator of the airplane runway problem and the       *)
(* Solution class that carries its result.                                 *)
(*                                                                         *)
(* The repository holds two versions of block_solve:                       *)
(*   src/solver.py        (variant "solver", paired with solver.Solution)  *)
(*   src/block_solver.py  (variant "block_solver", paired with             *)
(*                         solution.Solution)                              *)
(* Both are modelled; the variable `variant` says which one runs.          *)
(*                                                                         *)
(* Python lists are functions over 0..n-1, so indices are the code's.      *)
(* The unassigned marker and the empty-slot marker are the code's -1.      *)
(***************************************************************************)
EXTENDS Integers, Sequences, FiniteSets, TLC

\* Bounds of the model.
MaxAircraft == 2
MaxTime == 8
MaxSafety == 2
\* Bound on the times of the datasets and solutions of SpecSolution.
MaxSolTime == 3

VARIABLES
  variant,        \* which block_solve runs: "solver" or "block_solver"
  safety_time,    \* DataSet.safety_time
  earliest,       \* DataSet.earliest
  target,         \* DataSet.target
  latest,         \* DataSet.latest
  pc,             \* "start", "loop", "done", "error"
  err,            \* the exception that ended the run, or "none"
  min_earliest,   \* block_solve local
  max_latest,     \* block_solve local
  num_blocks,     \* block_solve local
  blocks,         \* block_solve local: the occupancy table
  i,              \* block_solve local: the aircraft loop's index
  probes,         \* the indices the last outward search read `blocks` with
  steps,          \* the number of values of k the last outward search used
  arrival_times,  \* Solution.arrival_times (empty before the Solution exists)
  ret             \* what the last call of a Solution method returned

vars == <<variant, safety_time, earliest, target, latest, pc, err, min_earliest,
          max_latest, num_blocks, blocks, i, probes, steps, arrival_times,
          ret>>

dataVars == <<variant, safety_time, earliest, target, latest>>

\* ------------------------------------------------------------------ Python

\* A Python list of n copies of v ([v] * n); n <= 0 gives the empty list.
ListOf(v, n) == [j \in 0..(n - 1) |-> v]

\* len(list)
PyLen(l) == Cardinality(DOMAIN l)

Abs(x) == IF x < 0 THEN -x ELSE x

Max2(a, b) == IF a >= b THEN a ELSE b

Min2(a, b) == IF a <= b THEN a ELSE b

\* min(list) and max(list) of a non-empty list.
ListMin(l) == CHOOSE m \in {l[j] : j \in DOMAIN l} : \A j \in DOMAIN l : m <= l[j]

ListMax(l) == CHOOSE m \in {l[j] : j \in DOMAIN l} : \A j \in DOMAIN l : m >= l[j]

\* a // b for b > 0: Python floors, as \div does.
FloorDiv(a, b) == a \div b

\* int(round(n / d)) for integers n and d > 0: Python 3 rounds a half to the
\* even neighbour. n / d is the float quotient; it is exactly x.5 when
\* 2 * (n mod d) = d.
PyRound(n, d) ==
  LET q == n \div d
      r == n % d
  IN  IF 2 * r < d THEN q
      ELSE IF 2 * r > d THEN q + 1
      ELSE IF q % 2 = 0 THEN q ELSE q + 1

\* list[b] is defined for -len <= b < len; a negative b counts from the end.
IndexOk(b, n) == -n <= b /\ b < n

PyIndex(b, n) == IF b < 0 THEN b + n ELSE b

num_aircraft == PyLen(earliest)

NoRet == [op |-> "none", bool |-> FALSE, num |-> 0, den |-> 1, err |-> "none"]

\* ------------------------------------------------------------------ inputs

Window(T) == {w \in [e : 0..T, t : 0..T, l : 0..T] : w.e <= w.t /\ w.t <= w.l}

\* The datasets: every aircraft has earliest <= target <= latest (the input
\* invariant of the data), times are not negative, safety_time >= 1.
DataInit(T) ==
  /\ safety_time \in 1..MaxSafety
  /\ \E n \in 0..MaxAircraft :
       \E ws \in [0..(n - 1) -> Window(T)] :
         /\ earliest = [j \in 0..(n - 1) |-> ws[j].e]
         /\ target = [j \in 0..(n - 1) |-> ws[j].t]
         /\ latest = [j \in 0..(n - 1) |-> ws[j].l]

Init ==
  /\ variant \in {"solver", "block_solver"}
  /\ DataInit(MaxTime)
  /\ pc = "start"
  /\ err = "none"
  /\ min_earliest = 0
  /\ max_latest = 0
  /\ num_blocks = 0
  /\ blocks = ListOf(-1, 0)
  /\ i = 0
  /\ probes = << >>
  /\ steps = 0
  /\ arrival_times = ListOf(-1, 0)
  /\ ret = NoRet

\* ------------------------------------------------- block_solve: the set-up

\* An off-by-one that counts the slots 0..num_blocks inclusive.
NumBlocksPlusOne == FloorDiv(ListMax(latest) - ListMin(earliest), safety_time) + 1

\* num_blocks = interval // safety_time (solver.py:116, block_solver.py:10)
NumBlocks == FloorDiv(ListMax(latest) - ListMin(earliest), safety_time)

\* min() of an empty list raises ValueError. solver.py then divides by
\* num_blocks to get `spacing` (ZeroDivisionError when it is 0);
\* block_solver.py has no such division and goes on with an empty table.
BlockSolveSetup ==
  /\ pc = "start"
  /\ IF num_aircraft = 0
       THEN /\ pc' = "error"
            /\ err' = "ValueError"
            /\ UNCHANGED <<min_earliest, max_latest, num_blocks, blocks>>
       ELSE /\ min_earliest' = ListMin(earliest)
            /\ max_latest' = ListMax(latest)
            /\ num_blocks' = NumBlocks
            /\ IF variant = "solver" /\ NumBlocks = 0
                 THEN /\ pc' = "error"
                      /\ err' = "ZeroDivisionError"
                      /\ blocks' = blocks
                 ELSE /\ pc' = "loop"
                      /\ err' = err
                      /\ blocks' = ListOf(-1, NumBlocks)
  /\ UNCHANGED <<dataVars, i, probes, steps, arrival_times, ret>>

\* --------------------------------------- block_solve of solver.py: search

\* spacing = safety_time + 0 * (...) / num_blocks: the float safety_time.
Spacing == safety_time

\* b0 = int(round((target - min_earliest) / spacing))
NominalBlockSolver(p) == PyRound(target[p] - min_earliest, Spacing)

\* A slip that tries the later slot b0 + k before the earlier slot b0 - k.
CandidatesSolverLaterFirst(b0, k) == <<Min2(b0 + k, num_blocks - 1), Max2(b0 - k, 0)>>

\* b1 = max(b0 - k, 0); b2 = min(b0 + k, num_blocks - 1), read in this order.
CandidatesSolver(b0, k) == <<Max2(b0 - k, 0), Min2(b0 + k, num_blocks - 1)>>

\* t = b * spacing + min_earliest
SlotTimeSolver(b) == b * Spacing + min_earliest

\* A slip that tests only the upper end of the window.
InWindowSolverNoLower(p, t) == t <= latest[p]

\* earliest <= t <= latest
InWindowSolver(p, t) == earliest[p] <= t /\ t <= latest[p]

Found(b, rd, k) == [kind |-> "found", block |-> b, probes |-> rd, steps |-> k + 1]

\* for k in range(0, num_blocks): ... The result says how the loop ended:
\* "found" (break with final_block = block), "none" (the range is exhausted,
\* final_block stays -1) or "IndexError" (blocks[b] with b out of the list).
\* probes are the indices `blocks` was read with, steps the values of k used.
RECURSIVE SearchSolver(_, _, _)
SearchSolver(p, k, rd) ==
  IF k >= num_blocks
    THEN [kind |-> "none", block |-> -1, probes |-> rd, steps |-> k]
    ELSE LET c == CandidatesSolver(NominalBlockSolver(p), k)
             b1 == c[1]
             b2 == c[2]
             rd1 == Append(rd, b1)
             rd2 == Append(rd1, b2)
         IN  IF ~IndexOk(b1, num_blocks)
               THEN [kind |-> "IndexError", block |-> -1, probes |-> rd1, steps |-> k + 1]
             ELSE IF /\ blocks[PyIndex(b1, num_blocks)] = -1
                     /\ InWindowSolver(p, SlotTimeSolver(b1))
               THEN Found(b1, rd1, k)
             ELSE IF ~IndexOk(b2, num_blocks)
               THEN [kind |-> "IndexError", block |-> -1, probes |-> rd2, steps |-> k + 1]
             ELSE IF /\ blocks[PyIndex(b2, num_blocks)] = -1
                     /\ InWindowSolver(p, SlotTimeSolver(b2))
               THEN Found(b2, rd2, k)
             ELSE SearchSolver(p, k + 1, rd2)

\* ---------------------------------- block_solve of block_solver.py: search

\* b0 = int(round(target / safety)): not relative to min_earliest.
NominalBlockBlockSolver(p) == PyRound(target[p], safety_time)

\* b1 = b0 - k; b2 = b0 + k
CandidatesBlockSolver(b0, k) == <<b0 - k, b0 + k>>

\* t = b * safety + min_earliest
SlotTimeBlockSolver(b) == b * safety_time + min_earliest

\* earliest < t < latest
InWindowBlockSolver(p, t) == earliest[p] < t /\ t < latest[p]

\* 0 <= b < num_blocks
InTable(b) == 0 <= b /\ b < num_blocks

RECURSIVE SearchBlockSolver(_, _, _)
SearchBlockSolver(p, k, rd) ==
  IF k >= num_blocks
    THEN [kind |-> "none", block |-> -1, probes |-> rd, steps |-> k]
    ELSE LET c == CandidatesBlockSolver(NominalBlockBlockSolver(p), k)
             b1 == c[1]
             b2 == c[2]
             rd1 == IF InTable(b1) THEN Append(rd, b1) ELSE rd
             rd2 == IF InTable(b2) THEN Append(rd1, b2) ELSE rd1
         IN  IF /\ InTable(b1)
                /\ blocks[b1] = -1
                /\ InWindowBlockSolver(p, SlotTimeBlockSolver(b1))
               THEN Found(b1, rd1, k)
             ELSE IF /\ InTable(b2)
                     /\ blocks[b2] = -1
                     /\ InWindowBlockSolver(p, SlotTimeBlockSolver(b2))
               THEN Found(b2, rd2, k)
             ELSE SearchBlockSolver(p, k + 1, rd2)

\* ------------------------------------------ block_solve: the aircraft loop

Search(p) ==
  IF variant = "solver" THEN SearchSolver(p, 0, << >>)
  ELSE SearchBlockSolver(p, 0, << >>)

\* if final_block >= 0: blocks[final_block] = i
Occupy(tbl, b, p) == IF b >= 0 THEN [tbl EXCEPT ![b] = p] ELSE tbl

\* One pass of `for i in range(data_set.num_aircraft)`: the outward search for
\* aircraft i and the write of its block. An aircraft that finds no block is
\* passed over and the loop goes on; an IndexError ends the run.
BlockSolvePlace ==
  /\ pc = "loop"
  /\ i < num_aircraft
  /\ LET s == Search(i)
     IN  /\ probes' = s.probes
         /\ steps' = s.steps
         /\ IF s.kind = "IndexError"
              THEN /\ pc' = "error"
                   /\ err' = "IndexError"
                   /\ UNCHANGED <<blocks, i>>
              ELSE /\ blocks' = Occupy(blocks, s.block, i)
                   /\ i' = i + 1
                   /\ UNCHANGED <<pc, err>>
  /\ UNCHANGED <<dataVars, min_earliest, max_latest, num_blocks, arrival_times, ret>>

\* ------------------------------------------------ block_solve: the result

\* A slip that drops the spacing from a slot's arrival time.
ArrivalOfSlotSolverNoSpacing(j) == min_earliest + j

\* int(round(min_earliest + i * spacing)): the rounded float is the integer
\* itself.
ArrivalOfSlotSolver(j) == min_earliest + j * Spacing

\* solver.py: for i in range(num_blocks): if blocks[i] != -1:
\*   sol.arrival_times[blocks[i]] = int(round(min_earliest + i * spacing))
RECURSIVE BuildSolver(_, _)
BuildSolver(j, arr) ==
  IF j >= num_blocks THEN arr
  ELSE IF blocks[j] # -1
    THEN BuildSolver(j + 1, [arr EXCEPT ![blocks[j]] = ArrivalOfSlotSolver(j)])
  ELSE BuildSolver(j + 1, arr)

\* block_solver.py: for i in range(num_blocks): plane = blocks[i];
\*   sol.arrival_times[plane] = min_earliest + i * safety
\* with no test of plane: an empty slot's -1 indexes the last aircraft.
RECURSIVE BuildBlockSolver(_, _)
BuildBlockSolver(j, arr) ==
  IF j >= num_blocks THEN arr
  ELSE BuildBlockSolver(j + 1,
         [arr EXCEPT ![PyIndex(blocks[j], num_aircraft)] = min_earliest + j * safety_time])

\* Solution.__init__: arrival_times = [-1] * num_aircraft
NewSolution == ListOf(-1, num_aircraft)

\* After the aircraft loop: the Solution is made and filled from the table.
BlockSolveBuild ==
  /\ pc = "loop"
  /\ i >= num_aircraft
  /\ arrival_times' = IF variant = "solver" THEN BuildSolver(0, NewSolution)
                      ELSE BuildBlockSolver(0, NewSolution)
  /\ pc' = "done"
  /\ UNCHANGED <<dataVars, err, min_earliest, max_latest, num_blocks, blocks, i,
                 probes, steps, ret>>

\* ------------------------------------------------- Solution of solver.py

\* get_objective: the sum of abs(arrival_times[i] - target[i]) over range(len).
RECURSIVE SumVariance(_)
SumVariance(j) ==
  IF j >= PyLen(arrival_times) THEN 0
  ELSE Abs(arrival_times[j] - target[j]) + SumVariance(j + 1)

\* is_valid: False at the first aircraft outside [earliest, latest] or the
\* first pair with abs(arrival - other) > safety_time; True otherwise.
IsValidResult ==
  \A a \in DOMAIN arrival_times :
    /\ ~(arrival_times[a] < earliest[a] \/ arrival_times[a] > latest[a])
    /\ \A k \in DOMAIN arrival_times :
         ~(Abs(arrival_times[a] - arrival_times[k]) > safety_time)

is_valid ==
  /\ pc = "done"
  /\ variant = "solver"
  /\ ret' = [NoRet EXCEPT !.op = "is_valid", !.bool = IsValidResult]
  /\ UNCHANGED <<dataVars, pc, err, min_earliest, max_latest, num_blocks, blocks,
                 i, probes, steps, arrival_times>>

get_objective ==
  /\ pc = "done"
  /\ variant = "solver"
  /\ ret' = [NoRet EXCEPT !.op = "get_objective", !.num = SumVariance(0)]
  /\ UNCHANGED <<dataVars, pc, err, min_earliest, max_latest, num_blocks, blocks,
                 i, probes, steps, arrival_times>>

\* get_deviation: sum_variance / len(arrival_times), the quotient kept as
\* num / den; a list of length 0 raises ZeroDivisionError.
get_deviation ==
  /\ pc = "done"
  /\ variant = "solver"
  /\ ret' = IF PyLen(arrival_times) = 0
              THEN [NoRet EXCEPT !.op = "get_deviation", !.err = "ZeroDivisionError"]
              ELSE [NoRet EXCEPT !.op = "get_deviation", !.num = SumVariance(0),
                                 !.den = PyLen(arrival_times)]
  /\ UNCHANGED <<dataVars, pc, err, min_earliest, max_latest, num_blocks, blocks,
                 i, probes, steps, arrival_times>>

\* ---------------------------------------------------------- specifications

\* A run of block_solve on a dataset, then the methods of the Solution.
Next ==
  \/ BlockSolveSetup
  \/ BlockSolvePlace
  \/ BlockSolveBuild
  \/ is_valid
  \/ get_objective
  \/ get_deviation

Spec == Init /\ [][Next]_vars

\* Any Solution of solver.py: arrival_times as __init__ leaves them (all -1)
\* or as any solver fills them.
InitSolution ==
  /\ variant = "solver"
  /\ DataInit(MaxSolTime)
  /\ arrival_times \in [DOMAIN earliest -> -1..MaxSolTime]
  /\ pc = "done"
  /\ err = "none"
  /\ min_earliest = 0
  /\ max_latest = 0
  /\ num_blocks = 0
  /\ blocks = ListOf(-1, 0)
  /\ i = 0
  /\ probes = << >>
  /\ steps = 0
  /\ ret = NoRet

NextSolution ==
  \/ is_valid
  \/ get_objective
  \/ get_deviation

SpecSolution == InitSolution /\ [][NextSolution]_vars

\* ------------------------------------------------------------ the claims

\* The aircraft whose entry of the solution holds an arrival time.
AssignedSet == {p \in DOMAIN arrival_times : arrival_times[p] # -1}

\* The slots that hold an aircraft.
OccupiedSlots == {b \in DOMAIN blocks : blocks[b] # -1}

\* The time of slot b as the claims state it.
TimeOfSlot(b) == min_earliest + b * safety_time

\* Slot b was empty when aircraft p had its turn: aircraft are placed in
\* input order and a slot is never given up, so the slot is empty now or
\* holds p or a later aircraft.
EmptyAtTurn(p, b) == blocks[b] = -1 \/ blocks[b] >= p

StrictlyInside(p, t) == earliest[p] < t /\ t < latest[p]

Inside(p, t) == earliest[p] <= t /\ t <= latest[p]

\* floor((max_latest - min_earliest) / safety_time) of a non-empty dataset.
Capacity == (ListMax(latest) - ListMin(earliest)) \div safety_time

C2_Separation ==
  pc = "done" =>
    \A p, q \in AssignedSet :
      p # q => Abs(arrival_times[p] - arrival_times[q]) >= safety_time

\* C2's case: a solution of either version with two assigned aircraft exactly
\* safety_time apart, safety_time > 1.
C2_Witness ==
  /\ pc = "done"
  /\ safety_time > 1
  /\ \E p, q \in AssignedSet :
       p # q /\ Abs(arrival_times[p] - arrival_times[q]) = safety_time

\* What C3 says is_valid decides: every assigned aircraft inside its window,
\* ends included, and at least safety_time from every other assigned aircraft.
C3_ValidAsClaimed ==
  \A a \in AssignedSet :
    /\ Inside(a, arrival_times[a])
    /\ \A k \in AssignedSet :
         k # a => Abs(arrival_times[a] - arrival_times[k]) >= safety_time

\* C3: is_valid returns True exactly when the solution is valid as claimed.
C3_IsValidExact ==
  ret.op = "is_valid" => (ret.bool <=> C3_ValidAsClaimed)

\* C4: when block_solve assigns every aircraft, is_valid on the returned
\* solution is True.
C4_AllAssignedIsValid ==
  (ret.op = "is_valid" /\ AssignedSet = DOMAIN arrival_times) => ret.bool

C5_NominalSlot(p) ==
  IF variant = "solver" THEN PyRound(target[p] - min_earliest, safety_time)
  ELSE PyRound(target[p], safety_time)

C5_Window(p, t) ==
  IF variant = "solver" THEN Inside(p, t) ELSE StrictlyInside(p, t)

C6_InfeasibleInput ==
  (pc \in {"done", "error"} /\ num_aircraft > 0 /\ Capacity <= 0)
    => (pc = "error" /\ err = "InfeasibleInput")

\* C7: an aircraft that had its turn and holds no slot found every slot
\* occupied or with a time outside its window, and a run that returns has
\* given every aircraft its turn.
C7_UnassignedOnlyIfFull ==
  /\ pc \in {"loop", "done"} =>
       \A p \in 0..(i - 1) :
         (\A b \in DOMAIN blocks : blocks[b] # p)
           => \A b \in DOMAIN blocks :
                ~(EmptyAtTurn(p, b) /\ StrictlyInside(p, TimeOfSlot(b)))
  /\ pc = "done" => i = num_aircraft

\* The sum of |arrival - target| over the assigned aircraft.
RECURSIVE C8_AssignedSum(_)
C8_AssignedSum(S) ==
  IF S = {} THEN 0
  ELSE LET p == CHOOSE x \in S : TRUE
       IN  Abs(arrival_times[p] - target[p]) + C8_AssignedSum(S \ {p})

\* C8: get_objective is the sum over the assigned aircraft (0 when none is
\* assigned); get_deviation is that sum divided by the number of assigned
\* aircraft and ends in DivisionUndefined when none is assigned.
C8_MetricsOverAssigned ==
  /\ ret.op = "get_objective" => ret.num = C8_AssignedSum(AssignedSet)
  /\ ret.op = "get_deviation" =>
       IF AssignedSet = {}
         THEN ret.err = "DivisionUndefined"
         ELSE /\ ret.err = "none"
              /\ ret.num * Cardinality(AssignedSet)
                   = C8_AssignedSum(AssignedSet) * ret.den

\* C9: at every point of a run at most floor((max_latest - min_earliest) /
\* safety_time) aircraft are assigned, in the table and in the solution, so
\* a returned solution leaves at least num_aircraft - num_blocks unassigned.
C9_Capacity ==
  num_aircraft > 0 =>
    /\ Cardinality(OccupiedSlots) <= Capacity
    /\ Cardinality(AssignedSet) <= Capacity
    /\ pc = "done" =>
         Cardinality(DOMAIN arrival_times \ AssignedSet) >= num_aircraft - Capacity

\* C9's case: a returned solution of a dataset with more aircraft than slots
\* whose slots are all taken.
C9_Witness ==
  /\ pc = "done"
  /\ Capacity >= 1
  /\ num_aircraft > Capacity
  /\ Cardinality(AssignedSet) = Capacity

\* C10: in the returned solution an aircraft that holds slot b has arrival
\* min_earliest + b * safety_time and an aircraft that holds no slot keeps
\* the unassigned marker.
C10_ArrivalFromTable ==
  pc = "done" =>
    \A p \in DOMAIN arrival_times :
      IF \E b \in DOMAIN blocks : blocks[b] = p
        THEN \A b \in DOMAIN blocks : blocks[b] = p => arrival_times[p] = TimeOfSlot(b)
        ELSE arrival_times[p] = -1

\* C11: with earliest <= target <= latest and num_blocks >= 1, every index
\* the outward search reads the occupancy table with lies in
\* 0..num_blocks-1, also when the nominal slot b0 is >= num_blocks, and the
\* search of one aircraft uses at most num_blocks values of k.
C11_ProbesInTable ==
  (pc \in {"loop", "done", "error"} /\ num_blocks >= 1) =>
    /\ \A n \in 1..Len(probes) : 0 <= probes[n] /\ probes[n] <= num_blocks - 1
    /\ steps <= num_blocks

====
